---- MODULE Spec2Model ----
(***************************************************************************)
(* Model of nessus-launcher: NessusClient::launch_scans_parallel and the   *)
(* helpers it calls (get_x_api_token, login, launch_scan_once), together   *)
(* with the retry driver of tokio_retry (Retry::spawn over                 *)
(* ExponentialBackoff::from_millis(500).max_delay(10s).take(5)).           *)
(*                                                                         *)
(* Text is a sequence of symbols.  A symbol is one character, except that  *)
(* the literal word getApiToken, which contains neither ':' nor '"', is    *)
(* one symbol, and "token=" (the cookie prefix) is one symbol.             *)
(***************************************************************************)
EXTENDS Integers, Sequences, FiniteSets, TLC

\* ---------------------------------------------------------------- bounds

\* longest collection of scan ids handed to launch_scans_parallel
MaxScans == 2

\* longest nessus6.js body (in symbols) enumerated for the token extractor
MaxBodyLen == 7

\* ------------------------------------------------------- program constants

\* ExponentialBackoff::from_millis(500): both the first delay and the base
BaseMillis == 500

\* .max_delay(Duration::from_secs(10)), in milliseconds
MaxDelayMillis == 10000

\* .take(5): the number of delays the strategy yields
TakeCount == 5

\* ------------------------------------------------------------------ text

QUOTE == "\""
COLON == ":"
NEEDLE == "getApiToken"
NEWLINE == "\n"

\* str::split(pat): non-overlapping matches of pat, left to right; the
\* pieces between them, empty pieces included.
RECURSIVE SplitFrom(_, _, _, _)
SplitFrom(s, pat, i, cur) ==
    IF i > Len(s) THEN <<cur>>
    ELSE IF i + Len(pat) - 1 <= Len(s) /\ SubSeq(s, i, i + Len(pat) - 1) = pat
         THEN <<cur>> \o SplitFrom(s, pat, i + Len(pat), <<>>)
         ELSE SplitFrom(s, pat, i + 1, Append(cur, s[i]))

Split(s, pat) == SplitFrom(s, pat, 1, <<>>)

\* str::contains("getApiToken")
Contains(s, word) == \E i \in 1..Len(s) : s[i] = word

\* Iterator::find: index of the first element satisfying the test, 0 if none
FindFirst(parts) ==
    IF \E i \in 1..Len(parts) : Contains(parts[i], NEEDLE)
    THEN CHOOSE i \in 1..Len(parts) :
            /\ Contains(parts[i], NEEDLE)
            /\ \A j \in 1..(i - 1) : ~Contains(parts[j], NEEDLE)
    ELSE 0

OkVal(v) == [ok |-> TRUE, val |-> v, err |-> "none"]
ErrVal(e) == [ok |-> FALSE, val |-> <<>>, err |-> e]

\* ParseApiToken taking the element at index 1 instead of index 2
ParseApiTokenIndex1(text) ==
    LET parts == Split(text, <<COLON, QUOTE>>)
        k == FindFirst(parts)
    IN  IF k = 0 THEN ErrVal("Other")
        ELSE LET vec3 == Split(parts[k], <<QUOTE>>)
             IN  IF Len(vec3) < 3 THEN ErrVal("Other")
                 ELSE OkVal(vec3[2])

\* ParseApiToken asking for four elements before it takes the third
ParseApiTokenNeedsFour(text) ==
    LET parts == Split(text, <<COLON, QUOTE>>)
        k == FindFirst(parts)
    IN  IF k = 0 THEN ErrVal("Other")
        ELSE LET vec3 == Split(parts[k], <<QUOTE>>)
             IN  IF Len(vec3) < 4 THEN ErrVal("Other")
                 ELSE OkVal(vec3[3])

\* the parsing half of get_x_api_token (client.rs 79-92); Rust indexes
\* from 0, so vec3[2] is the third element
ParseApiToken(text) ==
    LET parts == Split(text, <<COLON, QUOTE>>)
        k == FindFirst(parts)
    IN  IF k = 0 THEN ErrVal("Other")
        ELSE LET vec3 == Split(parts[k], <<QUOTE>>)
             IN  IF Len(vec3) < 3 THEN ErrVal("Other")
                 ELSE OkVal(vec3[3])

\* HeaderValue::from_str refuses a control byte (below 32 other than tab,
\* or 127); of the symbols used here only the newline is one
HeaderValueOk(s) == \A i \in 1..Len(s) : s[i] # NEWLINE

\* ParseSession with a missing token taken as the empty string
ParseSessionDefault(resp_text) ==
    IF ~resp_text.json THEN ErrVal("Json")
    ELSE IF resp_text.token # "string" THEN OkVal(<<>>)
    ELSE OkVal(resp_text.str)

\* the parsing half of login (client.rs 128-134): serde_json::from_str, then
\* v.get("token").and_then(as_str).  A response text is described by what
\* serde_json makes of it: json (is it valid JSON), token (the kind of the
\* value under "token": "absent", "number" or "string"), str (the string).
ParseSession(resp_text) ==
    IF ~resp_text.json THEN ErrVal("Json")
    ELSE IF resp_text.token # "string" THEN ErrVal("Other")
    ELSE OkVal(resp_text.str)

\* is_success that takes 200 for the only success
is_success_200_only(code) == code = 200

\* StatusCode::is_success
is_success(code) == 200 <= code /\ code <= 299

\* ------------------------------------------------------- the environment

\* nessus6.js bodies the server may serve to a batch
SampleBodies ==
    { <<"A", "B">>,
      <<NEEDLE, COLON, QUOTE, "A", QUOTE>>,
      <<"k", COLON, QUOTE, NEEDLE, QUOTE, "r", QUOTE, "A", "B", QUOTE, "}">>,
      <<"k", COLON, QUOTE, NEEDLE, QUOTE, "r", QUOTE, "A", NEWLINE, QUOTE>> }

\* /session response texts the server may send
SampleSessions ==
    { [json |-> FALSE, token |-> "absent", str |-> <<>>],
      [json |-> TRUE, token |-> "absent", str |-> <<>>],
      [json |-> TRUE, token |-> "number", str |-> <<>>],
      [json |-> TRUE, token |-> "string", str |-> <<"x", "y", "z">>],
      [json |-> TRUE, token |-> "string", str |-> <<"x", NEWLINE>>] }

\* statuses a launch request may be answered with
StatusCodes == {200, 204, 404}

\* scan id lists a caller may pass: the first n of 5, 8, 11, ... and n
\* copies of 5, for every n up to MaxScans
IdAt(i) == 5 + 3 * (i - 1)
ScanIdLists ==
    UNION { { [i \in 1..n |-> IdAt(i)], [i \in 1..n |-> 5] } : n \in 0..MaxScans }

\* --------------------------------------------------------- configuration

RequiredVars == {"NESSUS_HOST", "NESSUS_USERNAME", "NESSUS_PASSWORD"}

\* the value each required variable has when it is set
EnvValue(name) ==
    IF name = "NESSUS_HOST" THEN "https://example.com"
    ELSE IF name = "NESSUS_USERNAME" THEN "admin"
    ELSE "pass"

\* values DEFAULT_SCAN_IDS may have when it is set, as characters
SampleDefaultIds ==
    { <<>>,
      <<"5", ",", " ", "8">>,
      <<"x", ",", "8", ",", ",", "5", "y">> }

\* the environments main may run in: any subset of the required variables
\* set, DEFAULT_SCAN_IDS unset or set to one of the samples
Envs ==
    { [v \in S \cup D |-> IF v = "DEFAULT_SCAN_IDS" THEN d ELSE EnvValue(v)] :
        S \in SUBSET RequiredVars, D \in SUBSET {"DEFAULT_SCAN_IDS"},
        d \in SampleDefaultIds }

\* an environment with every required variable set and no default ids
FullEnv == [v \in RequiredVars |-> EnvValue(v)]

\* NessusConfig::from_env without the check of NESSUS_PASSWORD
FromEnvNoPassword(e) ==
    IF "NESSUS_HOST" \notin DOMAIN e THEN ErrVal("Config")
    ELSE IF "NESSUS_USERNAME" \notin DOMAIN e THEN ErrVal("Config")
    ELSE OkVal([host |-> e["NESSUS_HOST"], username |-> e["NESSUS_USERNAME"],
                password |-> IF "NESSUS_PASSWORD" \in DOMAIN e
                             THEN e["NESSUS_PASSWORD"] ELSE ""])

\* NessusConfig::from_env: env::var of the three names in turn, the first
\* one missing is returned as a Config error
FromEnv(e) ==
    IF "NESSUS_HOST" \notin DOMAIN e THEN ErrVal("Config")
    ELSE IF "NESSUS_USERNAME" \notin DOMAIN e THEN ErrVal("Config")
    ELSE IF "NESSUS_PASSWORD" \notin DOMAIN e THEN ErrVal("Config")
    ELSE OkVal([host |-> e["NESSUS_HOST"], username |-> e["NESSUS_USERNAME"],
                password |-> e["NESSUS_PASSWORD"]])

Digits == {"0", "1", "2", "3", "4", "5", "6", "7", "8", "9"}

DigitVal(c) ==
    CHOOSE d \in 0..9 : c = <<"0", "1", "2", "3", "4", "5", "6", "7", "8", "9">>[d + 1]

\* str::trim: leading and trailing white space removed
RECURSIVE Trim(_)
Trim(s) ==
    IF s = <<>> THEN s
    ELSE IF Head(s) = " " THEN Trim(Tail(s))
    ELSE IF s[Len(s)] = " " THEN Trim(SubSeq(s, 1, Len(s) - 1))
    ELSE s

RECURSIVE Decimal(_)
Decimal(s) ==
    IF s = <<>> THEN 0 ELSE 10 * Decimal(SubSeq(s, 1, Len(s) - 1)) + DigitVal(s[Len(s)])

\* str::parse::<u32>: decimal digits, at least one, after an optional "+";
\* -1 stands for Err (the samples stay far below 2^32)
ParseU32(s) ==
    LET t == IF s # <<>> /\ Head(s) = "+" THEN Tail(s) ELSE s
    IN  IF t # <<>> /\ \A i \in 1..Len(t) : t[i] \in Digits
        THEN Decimal(t) ELSE -1

\* filter_map(|s| s.trim().parse::<u32>().ok()).collect()
RECURSIVE ParsedIds(_)
ParsedIds(pieces) ==
    IF pieces = <<>> THEN <<>>
    ELSE LET v == ParseU32(Trim(Head(pieces)))
         IN  (IF v >= 0 THEN <<v>> ELSE <<>>) \o ParsedIds(Tail(pieces))

\* NessusConfig::default_scan_ids_from_env: unwrap_or_default gives the
\* empty string when the variable is not set
default_scan_ids_from_env(e) ==
    LET ids == IF "DEFAULT_SCAN_IDS" \in DOMAIN e THEN e["DEFAULT_SCAN_IDS"] ELSE <<>>
    IN  ParsedIds(Split(ids, <<",">>))

\* Cli.scan: None, or Some of at least one id (num_args = 1..)
NoArgs == [some |-> FALSE, ids |-> <<>>]
ArgsSet ==
    {NoArgs} \cup { [some |-> TRUE, ids |-> [i \in 1..n |-> IdAt(i)]] : n \in 1..MaxScans }

\* login's response text before any was received
NoText == [json |-> FALSE, token |-> "none", str |-> <<>>]

\* ----------------------------------------------------------------- state

VARIABLES
    scan_ids,      \* the argument of launch_scans_parallel
    pc,            \* where the call is: entry, await_token, await_login,
                   \* spawning, joining, returned
    result,        \* what the call returned: none, Ok, Err_Http, Err_Json, Err_Other
    x_api_token,   \* local of launch_scans_parallel (<<>> before it is set)
    x_cookie,      \* local of launch_scans_parallel (<<>> before it is set)
    tasks,         \* one record per spawned element of scan_ids
    log,           \* per element of scan_ids, the outcome events emitted for it
    noop_logged,   \* the "nothing to launch" event was emitted
    token_reqs,    \* GET /nessus6.js requests sent
    login_reqs,    \* POST /session requests sent
    body,          \* the script text get_x_api_token received
    token_result,  \* what get_x_api_token returned
    login_result,  \* what login returned
    resp_text,     \* the response text login received
    env,           \* the process environment after dotenv(): name -> value
    args,          \* Cli.scan: the --scan arguments, if any
    config,        \* what NessusConfig::from_env returned
    client,        \* whether NessusClient::new has built a client
    calls,         \* calls of launch_scans_parallel made by main
    exit_code      \* the exit status of the process (-1 while it runs)

main_vars == <<env, args, config, client, calls, exit_code>>

vars == <<scan_ids, pc, result, x_api_token, x_cookie, tasks, log, noop_logged,
          token_reqs, login_reqs, body, token_result, login_result, resp_text,
          main_vars>>

NoResult == [ok |-> FALSE, val |-> <<>>, err |-> "pending"]

N == Len(scan_ids)
Spawned == 1..Len(tasks)

Terminal == {"Success", "ExhaustedFailure", "Aborted"}
Running == {"Pending", "Attempting", "Sleeping"}

\* ------------------------------------------------------------- the retry

\* ExponentialBackoff::from_millis(500).max_delay(10s).take(5)
NewStrategy == [current |-> BaseMillis, taken |-> 0]

\* Take<ExponentialBackoff>::next: None once TakeCount delays were yielded;
\* otherwise the delay is current (times factor 1), replaced by max_delay
\* when larger, and current is multiplied by the base unless the cap was hit
StrategyNext(st) ==
    IF st.taken >= TakeCount
    THEN [none |-> TRUE, delay |-> 0, strategy |-> st]
    ELSE IF st.current > MaxDelayMillis
         THEN [none |-> FALSE, delay |-> MaxDelayMillis,
               strategy |-> [st EXCEPT !.taken = @ + 1]]
         ELSE [none |-> FALSE, delay |-> st.current,
               strategy |-> [current |-> st.current * BaseMillis,
                             taken |-> st.taken + 1]]

\* what came back for the request of the current attempt: nothing yet, a
\* response with a status, or a transport failure
NoResp == [kind |-> "none", code |-> 0]
StatusResp(code) == [kind |-> "status", code |-> code]
TransportResp == [kind |-> "transport", code |-> 0]

\* errors of launch_scan_once
HeaderErr == [kind |-> "Other", scan |-> 0, status |-> 0]
HttpErr == [kind |-> "Http", scan |-> 0, status |-> 0]
StatusErr(id, code) == [kind |-> "Other", scan |-> id, status |-> code]
NoErr == [kind |-> "none", scan |-> 0, status |-> 0]

\* NewTask that clones the session token where the cookie is meant
NewTaskRawCookie(id) ==
    [scan_id |-> id, status |-> "Pending", attempts |-> 0, http_calls |-> 0,
     fails |-> 0, oks |-> 0, strategy |-> NewStrategy, delay |-> 0, joined |-> FALSE,
     x_api_token |-> x_api_token, x_cookie |-> Tail(x_cookie),
     resp |-> NoResp, last |-> NoErr, sent |-> {}]

\* a fresh task as tokio::spawn leaves it: not yet polled.  attempts counts
\* the calls of launch_scan_once, http_calls the requests it sent, fails and
\* oks the Err and Ok results it returned; resp is what came back for the
\* current attempt, last what that attempt returned, sent the header pairs
\* (X-Api-Token, X-Cookie) of the requests sent so far
NewTask(id) ==
    [scan_id |-> id, status |-> "Pending", attempts |-> 0, http_calls |-> 0,
     fails |-> 0, oks |-> 0, strategy |-> NewStrategy, delay |-> 0, joined |-> FALSE,
     x_api_token |-> x_api_token, x_cookie |-> x_cookie,
     resp |-> NoResp, last |-> NoErr, sent |-> {}]

\* launch_scan_once after its send().await (client.rs 165-175): a transport
\* failure is an Http error, a status that is no success an error naming
\* the scan and the status, anything else Ok
LaunchResult(id, r) ==
    IF r.kind = "transport" THEN HttpErr
    ELSE IF is_success(r.code) THEN NoErr
    ELSE StatusErr(id, r.code)

\* OnErr with one retry budget for the whole batch: a task gives up as soon
\* as a sibling has given up
OnErrSharedBudget(tk) ==
    LET n == StrategyNext(tk.strategy)
    IN  IF n.none \/ \E j \in 1..Len(tasks) : tasks[j].status = "ExhaustedFailure"
        THEN [tk EXCEPT !.status = "ExhaustedFailure", !.fails = @ + 1]
        ELSE [tk EXCEPT !.status = "Sleeping", !.fails = @ + 1,
                        !.delay = n.delay, !.strategy = n.strategy]

\* OnErr of a loop that gives the error back at the first failure
OnErrGivesUp(tk) == [tk EXCEPT !.status = "ExhaustedFailure", !.fails = @ + 1]

\* Retry's handling of a failed attempt: ask the strategy for a delay and
\* sleep, or give the error back when the strategy is used up
OnErr(tk) ==
    LET n == StrategyNext(tk.strategy)
    IN  IF n.none
        THEN [tk EXCEPT !.status = "ExhaustedFailure", !.fails = @ + 1]
        ELSE [tk EXCEPT !.status = "Sleeping", !.fails = @ + 1,
                        !.delay = n.delay, !.strategy = n.strategy]

\* OnOk of a loop that goes on to the next delay after a success
OnOkKeepsRetrying(tk) == [tk EXCEPT !.status = "Sleeping", !.oks = @ + 1]

\* Retry's handling of a successful attempt: the future is ready with Ok
OnOk(tk) == [tk EXCEPT !.status = "Success", !.oks = @ + 1]

\* Attempt without the check of the header values: the request is sent
\* whatever the strings are
AttemptUnchecked(tk) ==
    [tk EXCEPT !.attempts = @ + 1, !.resp = NoResp, !.last = NoErr,
               !.status = "Attempting", !.http_calls = @ + 1,
               !.sent = @ \cup {<<tk.x_api_token, tk.x_cookie>>}]

\* one call of the retried closure: launch_scan_once up to its send().await;
\* a header that cannot be built fails the attempt before anything is sent
Attempt(tk) ==
    LET tk1 == [tk EXCEPT !.attempts = @ + 1, !.resp = NoResp, !.last = NoErr]
    IN  IF ~HeaderValueOk(tk.x_api_token) \/ ~HeaderValueOk(tk.x_cookie)
        THEN OnErr([tk1 EXCEPT !.last = HeaderErr])
        ELSE [tk1 EXCEPT !.status = "Attempting", !.http_calls = @ + 1,
                         !.sent = @ \cup {<<tk.x_api_token, tk.x_cookie>>}]

\* Outcome with the Err arm missing
OutcomeFailureDropped(tk, e) ==
    IF tk.status = "Success"
    THEN <<[ev |-> "launched", scan |-> tk.scan_id, err |-> NoErr]>>
    ELSE <<>>

\* the match on the retry's result (client.rs 214-217)
Outcome(tk, e) ==
    IF tk.status = "Success"
    THEN <<[ev |-> "launched", scan |-> tk.scan_id, err |-> NoErr]>>
    ELSE IF tk.status = "ExhaustedFailure"
    THEN <<[ev |-> "failed_after_retries", scan |-> tk.scan_id, err |-> e]>>
    ELSE <<>>

\* ---------------------------------------------------------------- actions

TaskVarsUnchanged == UNCHANGED <<scan_ids, pc, result, x_api_token, x_cookie,
                                 noop_logged, token_reqs, login_reqs, body,
                                 token_result, login_result, resp_text,
                                 main_vars>>

Init ==
    /\ scan_ids \in ScanIdLists
    /\ pc = "entry"
    /\ result = "none"
    /\ x_api_token = <<>>
    /\ x_cookie = <<>>
    /\ tasks = <<>>
    /\ log = [i \in 1..Len(scan_ids) |-> <<>>]
    /\ noop_logged = FALSE
    /\ token_reqs = 0
    /\ login_reqs = 0
    /\ body = <<>>
    /\ token_result = NoResult
    /\ login_result = NoResult
    /\ resp_text = NoText
    /\ env = FullEnv
    /\ args = NoArgs
    /\ config = FromEnv(FullEnv)
    /\ client = TRUE
    /\ calls = 1
    /\ exit_code = -1

\* CallEmpty without the early return: the token is fetched all the same
CallEmptyFetches ==
    /\ pc = "entry"
    /\ scan_ids = <<>>
    /\ token_reqs' = token_reqs + 1
    /\ pc' = "await_token"
    /\ UNCHANGED <<scan_ids, result, x_api_token, x_cookie, tasks, log,
                   noop_logged, login_reqs, body, token_result, login_result>>
    /\ UNCHANGED <<resp_text, main_vars>>

\* launch_scans_parallel on an empty collection (client.rs 188-191)
CallEmpty ==
    /\ pc = "entry"
    /\ scan_ids = <<>>
    /\ noop_logged' = TRUE
    /\ result' = "Ok"
    /\ pc' = "returned"
    /\ UNCHANGED <<scan_ids, x_api_token, x_cookie, tasks, log, token_reqs,
                   login_reqs, body, token_result, login_result>>
    /\ UNCHANGED <<resp_text, main_vars>>

\* get_x_api_token up to its send().await: the clock is read first, and a
\* clock before the epoch fails the call before anything is sent
CallFetchToken ==
    /\ pc = "entry"
    /\ scan_ids # <<>>
    /\ \E clock_ok \in BOOLEAN :
        IF clock_ok
        THEN /\ token_reqs' = token_reqs + 1
             /\ pc' = "await_token"
             /\ UNCHANGED <<result, token_result>>
        ELSE /\ token_result' = ErrVal("Other")
             /\ result' = "Err_Other"
             /\ pc' = "returned"
             /\ UNCHANGED token_reqs
    /\ UNCHANGED <<scan_ids, x_api_token, x_cookie, tasks, log, noop_logged,
                   login_reqs, body, login_result>>
    /\ UNCHANGED <<resp_text, main_vars>>

\* the GET of nessus6.js fails: the ? operator returns the error
TokenTransportError ==
    /\ pc = "await_token"
    /\ token_result' = ErrVal("Http")
    /\ result' = "Err_Http"
    /\ pc' = "returned"
    /\ UNCHANGED <<scan_ids, x_api_token, x_cookie, tasks, log, noop_logged,
                   token_reqs, login_reqs, body, login_result>>
    /\ UNCHANGED <<resp_text, main_vars>>

\* login up to its send().await, entered with the token just extracted:
\* the X-Api-Token header is built first, and a token that is no header
\* value fails the call before anything is sent
LoginSend(tok) ==
    IF HeaderValueOk(tok)
    THEN /\ login_reqs' = login_reqs + 1
         /\ pc' = "await_login"
         /\ UNCHANGED <<result, login_result>>
    ELSE /\ login_result' = ErrVal("Other")
         /\ result' = "Err_Other"
         /\ pc' = "returned"
         /\ UNCHANGED login_reqs

\* the GET of nessus6.js returns a body: parse it; an error is returned to
\* the caller, a token goes on to login
TokenResponse ==
    /\ pc = "await_token"
    /\ \E b \in SampleBodies :
        LET r == ParseApiToken(b)
        IN  /\ body' = b
            /\ token_result' = r
            /\ IF r.ok
               THEN /\ x_api_token' = r.val
                    /\ LoginSend(r.val)
               ELSE /\ result' = "Err_Other"
                    /\ pc' = "returned"
                    /\ UNCHANGED <<x_api_token, login_reqs, login_result>>
    /\ UNCHANGED <<scan_ids, x_cookie, tasks, log, noop_logged, token_reqs>>
    /\ UNCHANGED <<resp_text, main_vars>>

\* the POST of /session fails: the ? operator returns the error
LoginTransportError ==
    /\ pc = "await_login"
    /\ login_result' = ErrVal("Http")
    /\ result' = "Err_Http"
    /\ pc' = "returned"
    /\ UNCHANGED <<scan_ids, x_api_token, x_cookie, tasks, log, noop_logged,
                   token_reqs, login_reqs, body, token_result>>
    /\ UNCHANGED <<resp_text, main_vars>>

\* LoginResponse with the error of the parse dropped: the fan-out starts
\* with whatever string there is
LoginResponseLenient ==
    /\ pc = "await_login"
    /\ \E t \in SampleSessions :
        LET r == ParseSession(t)
        IN  /\ login_result' = r
            /\ resp_text' = t
            /\ x_cookie' = <<"token=">> \o r.val
            /\ pc' = "spawning"
            /\ UNCHANGED result
    /\ UNCHANGED <<scan_ids, x_api_token, tasks, log, noop_logged, token_reqs,
                   login_reqs, body, token_result>>
    /\ UNCHANGED main_vars

\* the POST of /session returns a text: parse it; an error is returned to
\* the caller, a session token is formatted into the cookie and the spawn
\* loop is entered
LoginResponse ==
    /\ pc = "await_login"
    /\ \E t \in SampleSessions :
        LET r == ParseSession(t)
        IN  /\ login_result' = r
            /\ resp_text' = t
            /\ IF r.ok
               THEN /\ x_cookie' = <<"token=">> \o r.val
                    /\ pc' = "spawning"
                    /\ UNCHANGED result
               ELSE /\ result' = "Err_" \o r.err
                    /\ pc' = "returned"
                    /\ UNCHANGED x_cookie
    /\ UNCHANGED <<scan_ids, x_api_token, tasks, log, noop_logged, token_reqs,
                   login_reqs, body, token_result>>
    /\ UNCHANGED main_vars

\* SpawnTask with a login of its own for every task
SpawnTaskRelogin ==
    /\ pc = "spawning"
    /\ Len(tasks) < N
    /\ login_reqs' = login_reqs + 1
    /\ tasks' = Append(tasks, NewTask(scan_ids[Len(tasks) + 1]))
    /\ pc' = IF Len(tasks) + 1 = N THEN "joining" ELSE "spawning"
    /\ UNCHANGED <<scan_ids, result, x_api_token, x_cookie, log, noop_logged,
                   token_reqs, body, token_result, login_result>>
    /\ UNCHANGED <<resp_text, main_vars>>

\* one iteration of the for loop: tokio::spawn and tasks.push; after the
\* last one the call waits in tasks.next()
SpawnTask ==
    /\ pc = "spawning"
    /\ Len(tasks) < N
    /\ tasks' = Append(tasks, NewTask(scan_ids[Len(tasks) + 1]))
    /\ pc' = IF Len(tasks) + 1 = N THEN "joining" ELSE "spawning"
    /\ UNCHANGED <<scan_ids, result, x_api_token, x_cookie, log, noop_logged,
                   token_reqs, login_reqs, body, token_result, login_result>>
    /\ UNCHANGED <<resp_text, main_vars>>

\* the first poll of a task: Retry::spawn makes the first attempt at once
TaskStart(i) ==
    /\ tasks[i].status = "Pending"
    /\ LET tk == Attempt(tasks[i])
       IN  /\ tasks' = [tasks EXCEPT ![i] = tk]
           /\ log' = [log EXCEPT ![i] = @ \o Outcome(tk, HeaderErr)]
    /\ TaskVarsUnchanged

\* a launch request is answered with a status
LaunchResponse(i) ==
    /\ tasks[i].status = "Attempting"
    /\ \E code \in StatusCodes :
        LET e == LaunchResult(tasks[i].scan_id, StatusResp(code))
            tk0 == [tasks[i] EXCEPT !.resp = StatusResp(code), !.last = e]
            tk == IF e = NoErr THEN OnOk(tk0) ELSE OnErr(tk0)
        IN  /\ tasks' = [tasks EXCEPT ![i] = tk]
            /\ log' = [log EXCEPT ![i] = @ \o Outcome(tk, e)]
    /\ TaskVarsUnchanged

\* a launch request fails without a response
LaunchTransportError(i) ==
    /\ tasks[i].status = "Attempting"
    /\ LET e == LaunchResult(tasks[i].scan_id, TransportResp)
           tk == OnErr([tasks[i] EXCEPT !.resp = TransportResp, !.last = e])
       IN  /\ tasks' = [tasks EXCEPT ![i] = tk]
           /\ log' = [log EXCEPT ![i] = @ \o Outcome(tk, e)]
    /\ TaskVarsUnchanged

\* the backoff sleep is over: the next attempt
TaskWake(i) ==
    /\ tasks[i].status = "Sleeping"
    /\ LET tk == Attempt([tasks[i] EXCEPT !.delay = 0])
       IN  /\ tasks' = [tasks EXCEPT ![i] = tk]
           /\ log' = [log EXCEPT ![i] = @ \o Outcome(tk, HeaderErr)]
    /\ TaskVarsUnchanged

\* the task panics while it is polled: its JoinHandle will yield a JoinError
TaskAbort(i) ==
    /\ tasks[i].status \in Running
    /\ tasks' = [tasks EXCEPT ![i].status = "Aborted"]
    /\ UNCHANGED log
    /\ TaskVarsUnchanged

\* tasks.next() yields None once every handle pushed has been yielded
AllJoined(ts) == \A j \in 1..Len(ts) : ts[j].joined

\* Join that returns after the first handle instead of looping
JoinReturnsEarly(i) ==
    /\ pc = "joining"
    /\ tasks[i].status \in Terminal
    /\ ~tasks[i].joined
    /\ tasks' = [tasks EXCEPT ![i].joined = TRUE]
    /\ log' = [log EXCEPT ![i] =
                  IF tasks[i].status = "Aborted"
                  THEN @ \o <<[ev |-> "join_error", scan |-> 0, err |-> NoErr]>>
                  ELSE @]
    /\ pc' = "returned"
    /\ result' = "Ok"
    /\ UNCHANGED <<scan_ids, x_api_token, x_cookie, noop_logged, token_reqs,
                   login_reqs, body, token_result, login_result>>
    /\ UNCHANGED <<resp_text, main_vars>>

\* Join that logs a JoinError and then leaves the loop with Ok
JoinStopsOnFault(i) ==
    /\ pc = "joining"
    /\ tasks[i].status \in Terminal
    /\ ~tasks[i].joined
    /\ tasks' = [tasks EXCEPT ![i].joined = TRUE]
    /\ log' = [log EXCEPT ![i] =
                  IF tasks[i].status = "Aborted"
                  THEN @ \o <<[ev |-> "join_error", scan |-> 0, err |-> NoErr]>>
                  ELSE @]
    /\ IF tasks[i].status = "Aborted" \/ AllJoined(tasks')
       THEN pc' = "returned" /\ result' = "Ok"
       ELSE UNCHANGED <<pc, result>>
    /\ UNCHANGED <<scan_ids, x_api_token, x_cookie, noop_logged, token_reqs,
                   login_reqs, body, token_result, login_result>>
    /\ UNCHANGED <<resp_text, main_vars>>

\* Join with the JoinError returned to the caller instead of logged
JoinPropagatesFault(i) ==
    /\ pc = "joining"
    /\ tasks[i].status \in Terminal
    /\ ~tasks[i].joined
    /\ tasks' = [tasks EXCEPT ![i].joined = TRUE]
    /\ UNCHANGED log
    /\ IF tasks[i].status = "Aborted"
       THEN pc' = "returned" /\ result' = "Err_Other"
       ELSE IF AllJoined(tasks')
            THEN pc' = "returned" /\ result' = "Ok"
            ELSE UNCHANGED <<pc, result>>
    /\ UNCHANGED <<scan_ids, x_api_token, x_cookie, noop_logged, token_reqs,
                   login_reqs, body, token_result, login_result>>
    /\ UNCHANGED <<resp_text, main_vars>>

\* one iteration of the while-let loop: tasks.next() yields the handle of a
\* finished task; a JoinError is logged; when no handle is left the call
\* returns Ok
Join(i) ==
    /\ pc = "joining"
    /\ tasks[i].status \in Terminal
    /\ ~tasks[i].joined
    /\ tasks' = [tasks EXCEPT ![i].joined = TRUE]
    /\ log' = [log EXCEPT ![i] =
                  IF tasks[i].status = "Aborted"
                  THEN @ \o <<[ev |-> "join_error", scan |-> 0, err |-> NoErr]>>
                  ELSE @]
    /\ IF AllJoined(tasks')
       THEN pc' = "returned" /\ result' = "Ok"
       ELSE UNCHANGED <<pc, result>>
    /\ UNCHANGED <<scan_ids, x_api_token, x_cookie, noop_logged, token_reqs,
                   login_reqs, body, token_result, login_result>>
    /\ UNCHANGED <<resp_text, main_vars>>

Next ==
    \/ CallEmpty
    \/ CallFetchToken
    \/ TokenTransportError
    \/ TokenResponse
    \/ LoginTransportError
    \/ LoginResponse
    \/ SpawnTask
    \/ \E i \in Spawned : TaskStart(i)
    \/ \E i \in Spawned : LaunchResponse(i)
    \/ \E i \in Spawned : LaunchTransportError(i)
    \/ \E i \in Spawned : TaskWake(i)
    \/ \E i \in Spawned : TaskAbort(i)
    \/ \E i \in Spawned : Join(i)

Spec == Init /\ [][Next]_vars

\* --------------------------------------------- the call, scheduled fairly

\* the call when no task panics: every step of Next but TaskAbort
NextLive ==
    \/ CallEmpty
    \/ CallFetchToken
    \/ TokenTransportError
    \/ TokenResponse
    \/ LoginTransportError
    \/ LoginResponse
    \/ SpawnTask
    \/ \E i \in Spawned : TaskStart(i)
    \/ \E i \in Spawned : LaunchResponse(i)
    \/ \E i \in Spawned : LaunchTransportError(i)
    \/ \E i \in Spawned : TaskWake(i)
    \/ \E i \in Spawned : Join(i)

\* the tokio scheduler polls a task that is ready, a request sent is
\* answered or fails, a sleep ends: while some step of the call or of a
\* task can be taken, one is taken.  No step is ever undone, so this is
\* all the progress of each single task needs.
Fairness == WF_vars(NextLive)

SpecLive == Init /\ [][NextLive]_vars /\ Fairness

\* ------------------------------------------------------ the command line

\* the process starts: nothing is configured, built or called yet
InitCli ==
    /\ env \in Envs
    /\ args \in ArgsSet
    /\ pc = "main"
    /\ config = NoResult
    /\ client = FALSE
    /\ calls = 0
    /\ exit_code = -1
    /\ scan_ids = <<>>
    /\ result = "none"
    /\ x_api_token = <<>>
    /\ x_cookie = <<>>
    /\ tasks = <<>>
    /\ log = <<>>
    /\ noop_logged = FALSE
    /\ token_reqs = 0
    /\ login_reqs = 0
    /\ body = <<>>
    /\ token_result = NoResult
    /\ login_result = NoResult
    /\ resp_text = NoText

\* the scan ids main hands to launch_scans_parallel (main.rs 55-58)
ChosenIds == IF args.some THEN args.ids ELSE default_scan_ids_from_env(env)

\* MainExit of a CLI that fails when a scan was not launched
MainExitStrict ==
    /\ pc = "returned"
    /\ exit_code' = IF result = "Ok" /\ \A i \in Spawned : tasks[i].status = "Success"
                    THEN 0 ELSE 1
    /\ pc' = "exited"
    /\ UNCHANGED <<scan_ids, result, x_api_token, x_cookie, tasks, log,
                   noop_logged, token_reqs, login_reqs, body, token_result,
                   login_result, resp_text, env, args, config, client, calls>>

\* main up to the await of launch_scans_parallel (main.rs 39-62): the
\* logger is installed (at process start no other is, so this cannot fail),
\* the configuration is read, the client is built, the ids are chosen and
\* the orchestrator is called; an error of from_env or of the builder is
\* returned by the ? operator and ends the process
MainStart ==
    /\ pc = "main"
    /\ config' = FromEnv(env)
    /\ \E build_ok \in BOOLEAN :
        IF FromEnv(env).ok /\ build_ok
        THEN /\ client' = TRUE
             /\ scan_ids' = ChosenIds
             /\ log' = [i \in 1..Len(ChosenIds) |-> <<>>]
             /\ calls' = calls + 1
             /\ pc' = "entry"
             /\ UNCHANGED exit_code
        ELSE /\ exit_code' = 1
             /\ pc' = "exited"
             /\ UNCHANGED <<client, scan_ids, log, calls>>
    /\ UNCHANGED <<result, x_api_token, x_cookie, tasks, noop_logged, token_reqs,
                   login_reqs, body, token_result, login_result, resp_text,
                   env, args>>

\* main returns what launch_scans_parallel returned: Ok is exit status 0,
\* Err is exit status 1
MainExit ==
    /\ pc = "returned"
    /\ exit_code' = IF result = "Ok" THEN 0 ELSE 1
    /\ pc' = "exited"
    /\ UNCHANGED <<scan_ids, result, x_api_token, x_cookie, tasks, log,
                   noop_logged, token_reqs, login_reqs, body, token_result,
                   login_result, resp_text, env, args, config, client, calls>>

NextCli ==
    \/ MainStart
    \/ MainExit
    \/ Next

SpecCli == InitCli /\ [][NextCli]_vars

\* ------------------------------------------- the token extractor, alone

\* the symbols script bodies are made of
Alphabet == {NEEDLE, COLON, QUOTE, "A", "B"}

\* every script body of at most MaxBodyLen symbols
Bodies == UNION { [1..n -> Alphabet] : n \in 0..MaxBodyLen }

\* get_x_api_token has received some body and is about to parse it
InitToken ==
    /\ body \in Bodies
    /\ pc = "extract"
    /\ token_result = NoResult
    /\ scan_ids = <<5>>
    /\ result = "none"
    /\ x_api_token = <<>>
    /\ x_cookie = <<>>
    /\ tasks = <<>>
    /\ log = <<<<>>>>
    /\ noop_logged = FALSE
    /\ token_reqs = 1
    /\ login_reqs = 0
    /\ login_result = NoResult
    /\ resp_text = NoText
    /\ env = FullEnv
    /\ args = NoArgs
    /\ config = FromEnv(FullEnv)
    /\ client = TRUE
    /\ calls = 1
    /\ exit_code = -1

\* the parsing half of get_x_api_token applied to body
ExtractToken ==
    /\ pc = "extract"
    /\ token_result' = ParseApiToken(body)
    /\ pc' = "extracted"
    /\ UNCHANGED <<scan_ids, result, x_api_token, x_cookie, tasks, log,
                   noop_logged, token_reqs, login_reqs, body, login_result>>
    /\ UNCHANGED <<resp_text, main_vars>>

NextToken == ExtractToken

SpecToken == InitToken /\ [][NextToken]_vars

\* ---------------------------------------------------------------- claims

Failed(r) == r.err \notin {"none", "pending"}

\* C1: once the token fetch and the login have succeeded, the batch call
\* returns Ok whatever the tasks did (success, exhausted retries, abort); it
\* returns an error only when the token fetch or the login failed.
C1_OkOnceAuthenticated ==
    /\ (pc = "returned" /\ login_result.ok) => result = "Ok"
    /\ result \notin {"none", "Ok"} => Failed(token_result) \/ Failed(login_result)

C1_Witness ==
    /\ pc = "returned"
    /\ login_result.ok
    /\ \E i \in Spawned : tasks[i].status = "ExhaustedFailure"
    /\ \E i \in Spawned : tasks[i].status = "Aborted"

\* what a task that did not abort must be, given only the results of its own
\* attempts: Success once one attempt returned Ok, ExhaustedFailure once the
\* initial attempt and every retry the strategy allows returned Err, and
\* still running otherwise
OwnOutcome(tk) ==
    IF tk.oks >= 1 THEN "Success"
    ELSE IF tk.fails = TakeCount + 1 THEN "ExhaustedFailure"
    ELSE "Running"

\* C2: fault isolation.  Under every interleaving, the outcome of a task and
\* the number of its attempts are decided by the results of its own attempts
\* alone; when the batch returns, a task all of whose attempts failed is in
\* ExhaustedFailure, a task whose first attempt succeeded is in Success after
\* exactly one attempt, and the call returned Ok.
C2_FaultIsolation ==
    /\ \A i \in Spawned :
        tasks[i].status # "Aborted" =>
            /\ OwnOutcome(tasks[i]) =
                  (IF tasks[i].status \in Running THEN "Running" ELSE tasks[i].status)
            /\ tasks[i].attempts = tasks[i].fails + tasks[i].oks
                  + (IF tasks[i].status = "Attempting" THEN 1 ELSE 0)
    /\ (pc = "returned" /\ tasks # <<>>) =>
        /\ result = "Ok"
        /\ \A i \in Spawned :
            tasks[i].status # "Aborted" =>
                /\ tasks[i].oks = 0 => tasks[i].status = "ExhaustedFailure"
                /\ tasks[i].fails = 0 =>
                      tasks[i].status = "Success" /\ tasks[i].attempts = 1

C2_Witness ==
    /\ pc = "returned"
    /\ result = "Ok"
    /\ scan_ids = <<5, 8>>
    /\ tasks[1].status = "Success" /\ tasks[1].attempts = 1
    /\ tasks[2].status = "ExhaustedFailure" /\ tasks[2].oks = 0

\* C3: fail-fast authentication.  Tasks exist (so a launch can be attempted)
\* only after one token fetch and then one login have both succeeded; no
\* login request is sent unless the token fetch succeeded; when either step
\* fails the call has returned that failure and no task was ever spawned.
C3_FailFastAuth ==
    /\ tasks # <<>> => token_result.ok /\ login_result.ok
    /\ login_reqs > 0 => token_result.ok
    /\ Failed(token_result) =>
          /\ pc = "returned" /\ result = "Err_" \o token_result.err
          /\ login_reqs = 0 /\ login_result = NoResult /\ tasks = <<>>
    /\ Failed(login_result) =>
          /\ pc = "returned" /\ result = "Err_" \o login_result.err
          /\ tasks = <<>>

C3_Witness ==
    /\ pc = "returned"
    /\ token_result.ok
    /\ login_reqs = 1
    /\ login_result = ErrVal("Other")
    /\ Len(scan_ids) = 2
    /\ tasks = <<>>

\* C4 as stated: every finished batch over a non-empty collection sent
\* exactly one token-fetch request and exactly one login request.
C4_ExactlyOneOfEach ==
    (pc = "returned" /\ scan_ids # <<>>) => token_reqs = 1 /\ login_reqs = 1

\* C4 as amended: a batch sends at most one token-fetch request and at most
\* one login request, whatever the number of scan ids and of attempts; a
\* batch whose authentication succeeded sent exactly one of each, and so did
\* every batch in which a task exists.
C4_OnceWhenAuthenticated ==
    /\ token_reqs <= 1
    /\ login_reqs <= 1
    /\ login_result.ok => token_reqs = 1 /\ login_reqs = 1
    /\ tasks # <<>> => token_reqs = 1 /\ login_reqs = 1

C4_Witness ==
    /\ pc = "returned"
    /\ Len(tasks) = 2
    /\ \E i \in Spawned : tasks[i].attempts >= 3
    /\ token_reqs = 1
    /\ login_reqs = 1

\* C5: on an empty collection the call returns Ok and nothing is sent: no
\* token fetch, no login, no launch.
C5_EmptyIsNoOp ==
    scan_ids = <<>> =>
        /\ token_reqs = 0 /\ login_reqs = 0 /\ tasks = <<>>
        /\ pc \in {"entry", "returned"}
        /\ pc = "returned" => result = "Ok" /\ noop_logged

C5_Witness ==
    /\ scan_ids = <<>>
    /\ pc = "returned"
    /\ result = "Ok"

\* C6 as stated: a launch that fails on every attempt is called exactly 5
\* times, never a 6th time, and the task then is in ExhaustedFailure.
C6_ExhaustedAfterFiveCalls ==
    \A i \in Spawned :
        /\ tasks[i].attempts <= 5
        /\ tasks[i].status = "ExhaustedFailure" => tasks[i].attempts = 5

\* C7: the retry stops at the first success.  A task whose first k-1
\* attempts failed and whose k-th attempt succeeded is in Success with
\* exactly k attempts, for every k from 1 up to the 5 the claim names; an
\* attempt that returned Ok is the last one of its task.
C7_StopsAtFirstSuccess ==
    \A i \in Spawned :
        /\ tasks[i].oks >= 1 =>
              /\ tasks[i].status = "Success"
              /\ tasks[i].oks = 1
              /\ tasks[i].attempts = tasks[i].fails + 1
        /\ tasks[i].status = "Success" =>
              tasks[i].oks = 1 /\ tasks[i].attempts = tasks[i].fails + 1
        /\ (tasks[i].status = "Attempting" /\ tasks[i].attempts <= 5) =>
              tasks[i].oks = 0 /\ tasks[i].fails = tasks[i].attempts - 1

C7_Witness ==
    /\ pc = "returned"
    /\ Len(tasks) = 2
    /\ tasks[1].status = "Success" /\ tasks[1].fails = 2 /\ tasks[1].attempts = 3
    /\ tasks[2].status = "Success" /\ tasks[2].fails = 4 /\ tasks[2].attempts = 5

\* C8: join before return.  When the call has returned from a batch whose
\* authentication succeeded, a task was spawned for every element and each
\* is in a terminal state and was joined: nothing is in flight and nothing
\* sleeps.
C8_JoinBeforeReturn ==
    (pc = "returned" /\ login_result.ok) =>
        /\ Len(tasks) = N
        /\ \A i \in Spawned : tasks[i].status \in Terminal /\ tasks[i].joined

C8_Witness ==
    /\ pc = "returned"
    /\ login_result.ok
    /\ Len(tasks) = 2
    /\ tasks[1].status = "ExhaustedFailure"
    /\ tasks[2].status = "Aborted"

\* the outcome event that belongs to a terminal status
EventOf(st) ==
    IF st = "Success" THEN "launched"
    ELSE IF st = "ExhaustedFailure" THEN "failed_after_retries"
    ELSE "join_error"

\* C9: no outcome is dropped.  No element of the collection ever has two
\* outcome events, and when the call has returned from an authenticated
\* batch every element, duplicates included, has exactly one: launched,
\* failed after retries, or a join error, as its task ended.
C9_OneOutcomeEach ==
    /\ \A i \in 1..N : Len(log[i]) <= 1
    /\ (pc = "returned" /\ login_result.ok) =>
          \A i \in 1..N :
              /\ i \in Spawned
              /\ Len(log[i]) = 1
              /\ log[i][1].ev = EventOf(tasks[i].status)

C9_Witness ==
    /\ pc = "returned"
    /\ scan_ids = <<5, 5>>
    /\ Len(log[1]) = 1 /\ log[1][1].ev = "failed_after_retries"
    /\ Len(log[2]) = 1 /\ log[2][1].ev = "join_error"

NoQuoteIn(text, from, to) == \A m \in from..to : text[m] # QUOTE

C11_MissingConfiguration ==
    pc # "main" =>
        /\ config.ok <=> RequiredVars \subseteq DOMAIN env
        /\ ~config.ok =>
              /\ config.err = "Config"
              /\ ~client /\ calls = 0 /\ exit_code = 1 /\ pc = "exited"
              /\ token_reqs = 0 /\ login_reqs = 0 /\ tasks = <<>>
        /\ config.ok =>
              /\ config.val.host = env["NESSUS_HOST"]
              /\ config.val.username = env["NESSUS_USERNAME"]
              /\ config.val.password = env["NESSUS_PASSWORD"]

C11_Witness ==
    /\ pc = "exited"
    /\ DOMAIN env = {"NESSUS_HOST", "NESSUS_USERNAME", "DEFAULT_SCAN_IDS"}
    /\ args.some
    /\ config.err = "Config"
    /\ token_reqs = 0

\* C12: login result.  When the session response is a JSON object whose
\* token field is a string, login returns exactly that string (and the cookie
\* is built from it); when the response is no valid JSON or has no token
\* field, login fails with a parse error (Json or Other), the call returns
\* that error and no task is spawned.
C12_LoginResult ==
    resp_text.token # "none" =>
        /\ (resp_text.json /\ resp_text.token = "string") =>
              /\ login_result = OkVal(resp_text.str)
              /\ x_cookie = <<"token=">> \o resp_text.str
        /\ (~resp_text.json \/ resp_text.token = "absent") =>
              /\ ~login_result.ok
              /\ login_result.err = (IF resp_text.json THEN "Other" ELSE "Json")
              /\ pc = "returned"
              /\ result = "Err_" \o login_result.err
              /\ tasks = <<>>

C12_Witness ==
    /\ resp_text = [json |-> TRUE, token |-> "string", str |-> <<"x", "y", "z">>]
    /\ login_result = OkVal(<<"x", "y", "z">>)
    /\ pc = "returned"
    /\ result = "Ok"

\* C13: command surface.  main calls the orchestrator at most once, and
\* exactly once when the configuration was read and the client built; the
\* ids it passes are the --scan arguments when there are any and the default
\* list of the configuration otherwise.  Once the orchestrator was called the
\* exit status is a failure exactly when the token fetch or the login failed:
\* the process exits with 0 whenever authentication succeeded, whatever the
\* scans did.
C13_CommandSurface ==
    /\ calls <= 1
    /\ (config.ok /\ client) => calls = 1
    /\ calls = 1 =>
          /\ scan_ids = (IF args.some THEN args.ids
                         ELSE default_scan_ids_from_env(env))
          /\ pc = "exited" =>
                exit_code = (IF Failed(token_result) \/ Failed(login_result)
                             THEN 1 ELSE 0)
    /\ (pc = "exited" /\ login_result.ok) => exit_code = 0

C13_Witness ==
    /\ pc = "exited"
    /\ exit_code = 0
    /\ ~args.some
    /\ scan_ids = <<5, 8>>
    /\ login_result.ok
    /\ \A i \in 1..2 : tasks[i].status = "ExhaustedFailure"

\* the reference the extractor is compared with, written over positions of
\* the body and not through Split.  DelimAt: where a delimiter :" starts
\* (two different characters, so no two matches overlap); NeedleAt: the
\* first getApiToken; FragStart..FragEnd: the fragment that holds it, from
\* the end of the last delimiter before it (or the start of the body) to the
\* next delimiter after it (or the end); FragQuotes: the double quotes in
\* that fragment.
SetMin(S) == CHOOSE x \in S : \A y \in S : x <= y
SetMax(S) == CHOOSE x \in S : \A y \in S : x >= y
DelimAt(text) ==
    { p \in 1..(Len(text) - 1) : text[p] = COLON /\ text[p + 1] = QUOTE }
NeedleAt(text) == SetMin({ i \in 1..Len(text) : text[i] = NEEDLE })
FragStart(text) ==
    SetMax({1} \cup { p + 2 : p \in { d \in DelimAt(text) : d < NeedleAt(text) } })
FragEnd(text) ==
    SetMin({Len(text) + 1} \cup { d \in DelimAt(text) : d > NeedleAt(text) }) - 1
FragQuotes(text) ==
    { q \in FragStart(text)..FragEnd(text) : text[q] = QUOTE }

\* the element at index 2 of the fragment split on ": what lies between its
\* second double quote and its third, or its end when it has no third
RefToken(text) ==
    IF ~Contains(text, NEEDLE) THEN ErrVal("Other")
    ELSE IF Cardinality(FragQuotes(text)) < 2 THEN ErrVal("Other")
    ELSE LET Q == FragQuotes(text)
             q1 == SetMin(Q)
             q2 == SetMin(Q \ {q1})
             q3 == SetMin({FragEnd(text) + 1} \cup (Q \ {q1, q2}))
         IN  OkVal(SubSeq(text, q2 + 1, q3 - 1))

\* C19: the parsing algorithm.  For every body the extractor returns what
\* the reference returns: the text between the second and the third double
\* quote of the first :"-delimited fragment that contains getApiToken.  It
\* returns an error exactly when no fragment contains getApiToken or that
\* fragment has fewer than two double quotes (fewer than three elements),
\* and a token it returns is a piece of the body.
C19_ReferenceParse ==
    pc = "extracted" =>
        /\ token_result = RefToken(body)
        /\ ~token_result.ok <=>
              \/ ~Contains(body, NEEDLE)
              \/ Cardinality(FragQuotes(body)) < 2
        /\ ~token_result.ok => token_result = ErrVal("Other")
        /\ token_result.ok =>
              \E a \in 1..(Len(body) + 1), b \in 0..Len(body) :
                  token_result.val = SubSeq(body, a, b)

C19_Witness ==
    /\ pc = "extracted"
    /\ body = <<COLON, QUOTE, NEEDLE, QUOTE, "A", QUOTE, "B">>
    /\ token_result = OkVal(<<"B">>)

\* the attempts Retry::spawn makes at most: the first and one per delay
MaxAttempts == TakeCount + 1

\* one step of one task, from record a to record b, seen as the machine
\* Pending -> Attempting(k) -> Success | Attempting(k+1) | ExhaustedFailure
\* with k the attempts counter and Sleeping the wait between two attempts
TaskStep(a, b) ==
    /\ b.status # "Aborted"
    /\ a.status \in {"Success", "ExhaustedFailure"} =>
          b.status = a.status /\ b.attempts = a.attempts
    /\ b.attempts \in {a.attempts, a.attempts + 1}
    /\ b.attempts = a.attempts + 1 => a.status \in {"Pending", "Sleeping"}
    /\ (a.status = "Pending" /\ b.status # "Pending") => b.attempts = 1
    /\ (a.status = "Attempting" /\ b.status # "Attempting") =>
          /\ b.attempts = a.attempts
          /\ b.status \in {"Success", "Sleeping", "ExhaustedFailure"}
    /\ (b.status = "Success" /\ a.status # "Success") =>
          a.status = "Attempting" /\ b.oks = 1
    /\ (b.status = "Sleeping" /\ b.fails # a.fails) =>
          b.attempts < MaxAttempts /\ b.fails = b.attempts
    /\ (b.status = "ExhaustedFailure" /\ a.status # "ExhaustedFailure") =>
          b.attempts = MaxAttempts /\ b.fails = MaxAttempts
    /\ b.fails > a.fails => b.status \in {"Sleeping", "ExhaustedFailure"}

\* C16: per-task termination.  Every task starts in Pending and every step
\* follows the machine: the first attempt from Pending, Success only from
\* an attempt in flight, the next attempt only after a failed one while
\* fewer than MaxAttempts were made, ExhaustedFailure only when the attempt
\* that failed was number MaxAttempts, and no step out of Success or
\* ExhaustedFailure, and no task is ever dropped.  When every request is
\* answered and scheduling is fair, the call eventually returns with every
\* task spawned in Success or ExhaustedFailure.
C16_TaskTermination ==
    /\ [][ /\ Len(tasks') >= Len(tasks)
            /\ \A i \in 1..Len(tasks') :
                  IF i \in Spawned
                  THEN TaskStep(tasks[i], tasks'[i])
                  ELSE tasks'[i].status = "Pending" /\ tasks'[i].attempts = 0 ]_vars
    /\ <>( /\ pc = "returned"
           /\ \A i \in Spawned : tasks[i].status \in {"Success", "ExhaustedFailure"} )

C16_Witness ==
    /\ pc = "returned"
    /\ Len(tasks) = 2
    /\ scan_ids = <<5, 8>>
    /\ tasks[1].status = "Success" /\ tasks[1].attempts = 3
    /\ tasks[2].status = "ExhaustedFailure" /\ tasks[2].attempts = MaxAttempts
    /\ tasks[2].http_calls = MaxAttempts

Min(a, b) == IF a <= b THEN a ELSE b

\* C14 as stated: in every task the wait after the k-th failed attempt is
\* min(500ms * 2^(k-1), 10s): 500, 1000, 2000, 4000 ms for k = 1..4.
C14_DoublingSchedule ==
    \A i \in Spawned :
        tasks[i].status = "Sleeping" =>
            tasks[i].delay =
                Min(BaseMillis * 2 ^ (tasks[i].fails - 1), MaxDelayMillis)

\* C15 as stated: whatever credentials the authentication phase obtained,
\* the number of launch attempts of a task equals the number of launch
\* requests it issued.
C15_OneCallPerAttempt ==
    \A i \in Spawned :
        tasks[i].attempts = tasks[i].http_calls

\* whether both header values of a task can be built
HeadersOk(tk) == HeaderValueOk(tk.x_api_token) /\ HeaderValueOk(tk.x_cookie)

\* C15: calls per attempt.  A task never issues more launch requests than it
\* made attempts; when the API token and the cookie both form a valid
\* header value every attempt issued exactly one request, and when one of
\* them does not, every attempt failed before anything was sent: the task
\* issued no request at all, however many attempts it made.
C15_CallsPerAttempt ==
    \A i \in Spawned :
        /\ tasks[i].http_calls <= tasks[i].attempts
        /\ HeadersOk(tasks[i]) => tasks[i].http_calls = tasks[i].attempts
        /\ ~HeadersOk(tasks[i]) =>
              /\ tasks[i].http_calls = 0
              /\ tasks[i].status # "Attempting"
              /\ tasks[i].fails = tasks[i].attempts

C15_Witness ==
    /\ \E i \in Spawned :
          /\ ~HeaderValueOk(tasks[i].x_cookie)
          /\ tasks[i].status = "ExhaustedFailure"
          /\ tasks[i].attempts = TakeCount + 1
          /\ tasks[i].http_calls = 0

\* C17: execution-layer faults are contained.  A task that aborted and was
\* joined has one join_error event in the log and the call has not failed;
\* joining it does not end the loop while another handle is outstanding;
\* when the call has returned from a batch with an aborted task it returned
\* Ok, every task was joined in a terminal state, and every task that did
\* not abort has the outcome its own attempts decide, logged once.
C17_FaultContained ==
    /\ \A i \in Spawned :
          (tasks[i].status = "Aborted" /\ tasks[i].joined) =>
              /\ Len(log[i]) = 1 /\ log[i][1].ev = "join_error"
              /\ result \in {"none", "Ok"}
              /\ (\E j \in Spawned : ~tasks[j].joined) => pc = "joining"
    /\ (pc = "returned" /\ \E i \in Spawned : tasks[i].status = "Aborted") =>
          /\ result = "Ok"
          /\ Len(tasks) = N
          /\ \A j \in Spawned :
                /\ tasks[j].joined
                /\ tasks[j].status \in Terminal
                /\ tasks[j].status # "Aborted" =>
                      /\ tasks[j].status = OwnOutcome(tasks[j])
                      /\ log[j] = Outcome(tasks[j], tasks[j].last)

C17_Witness ==
    /\ pc = "returned"
    /\ result = "Ok"
    /\ scan_ids = <<5, 8>>
    /\ tasks[1].status = "Aborted" /\ tasks[1].attempts = 2
    /\ tasks[2].status = "ExhaustedFailure" /\ tasks[2].joined

\* C18: the result of one launch attempt.  After a response with a status
\* the attempt returned Ok exactly when the status is in 200..299, and for
\* any other status it returned the error that names the scan id of the
\* task and that status; after a transport failure it returned an Http
\* error.  A task is in Success only after a 2xx response, and the error
\* logged for an exhausted task is the one its last attempt returned.
C18_AttemptResult ==
    \A i \in Spawned :
        LET tk == tasks[i]
            success == tk.resp.code >= 200 /\ tk.resp.code <= 299
        IN  /\ tk.resp.kind = "status" =>
                  /\ tk.last = NoErr <=> success
                  /\ success <=> tk.status = "Success"
                  /\ ~success =>
                        tk.last = [kind |-> "Other", scan |-> scan_ids[i],
                                   status |-> tk.resp.code]
            /\ tk.resp.kind = "transport" => tk.last.kind = "Http"
            /\ tk.status = "Success" => tk.resp.kind = "status"
            /\ tk.status = "ExhaustedFailure" =>
                  Len(log[i]) = 1 /\ log[i][1].err = tk.last

C18_Witness ==
    /\ scan_ids = <<5, 8>>
    /\ Len(tasks) = 2
    /\ tasks[1].resp = StatusResp(204) /\ tasks[1].status = "Success"
    /\ tasks[2].resp = StatusResp(404) /\ tasks[2].last = StatusErr(8, 404)
    /\ tasks[2].status = "Sleeping"

\* the header pair the authentication phase produced
BatchCredentials == <<token_result.val, <<"token=">> \o login_result.val>>

\* C20: shared credentials are read-only.  Every task holds the API token
\* and the cookie token=<SessionToken> of the one authentication phase,
\* every request a task has sent, retries included, carried exactly that
\* pair, the locals of the call still hold it, and while tasks exist the
\* token was fetched once and login was posted once.
C20_SharedCredentials ==
    tasks # <<>> =>
        /\ <<x_api_token, x_cookie>> = BatchCredentials
        /\ token_reqs = 1
        /\ login_reqs = 1
        /\ \A i \in Spawned :
              /\ <<tasks[i].x_api_token, tasks[i].x_cookie>> = BatchCredentials
              /\ tasks[i].sent \subseteq {BatchCredentials}
              /\ tasks[i].http_calls > 0 => tasks[i].sent = {BatchCredentials}

C20_Witness ==
    /\ Len(tasks) = 2
    /\ \A i \in 1..2 :
          /\ tasks[i].http_calls >= 3
          /\ tasks[i].fails >= 2
          /\ tasks[i].sent = {<<token_result.val, <<"token=", "x", "y", "z">>>>}

TypeOK ==
    /\ pc \in {"entry", "await_token", "await_login", "spawning", "joining", "returned"}
    /\ result \in {"none", "Ok", "Err_Http", "Err_Json", "Err_Other"}
    /\ Len(tasks) <= N
    /\ \A i \in Spawned : tasks[i].status \in Running \cup Terminal

====
